---- MODULE Spec2Model ----
(***************************************************************************)
(* mcp-notify: the sync coordinator (src/cache/sync.ts) and the entity     *)
(* caches built on it (src/cache/users.ts, src/cache/channels.ts).         *)
(*                                                                         *)
(* Several callers share one SQLite store.  Every SQL statement is one     *)
(* atomic step (SQLite serialises statements and transactions), so callers *)
(* of different OS processes interleave between any two statements that    *)
(* touch the store, and the millisecond clock may advance between them.    *)
(* A statement that only reads the clock (Date.now()) is part of the step  *)
(* of the store statement before it.                                       *)
(***************************************************************************)
EXTENDS Integers, FiniteSets, Sequences, TLC

\* ---------------------------------------------------------------- constants
SYNC_TIMEOUT_MS == 30000
POLL_INTERVAL_MS == 500
CACHE_TTL_MS == 86400000

\* ------------------------------------------------------------------- bounds
\* calls of a resolve function made in one behaviour, by all callers together
MaxCalls == 3
\* advances of the millisecond clock in one behaviour
MaxTicks == 1

\* The callers: independent tasks sharing the store file.
Procs == {"p1", "p2"}

\* Amounts by which the clock advances between two steps: one poll interval,
\* or just more than one timeout (a claim made before it is stale after it).
\* Steps that happen with no advance between them read the same millisecond.
Steps == {POLL_INTERVAL_MS, SYNC_TIMEOUT_MS + 1}

\* Date.now() when the first caller starts: later than one TTL after the epoch.
StartTime == CACHE_TTL_MS + SYNC_TIMEOUT_MS + 1

Kinds == {"channels", "users", "user_groups"}

NULL == "null"

\* The Remote Directory Source: for each kind the pages of a full listing.
\* An entry lacking its id or its label has "" there.
Remote(k) ==
    CASE k = "channels" -> << {[id |-> "C1", label |-> "general"]},
                              {[id |-> "C2", label |-> "random"]} >>
      [] k = "users" -> << {[id |-> "U222", label |-> "alice"]},
                           {[id |-> "U333", label |-> ""],
                            [id |-> "U444", label |-> "devs"]} >>
      [] k = "user_groups" -> << {[id |-> "S1", label |-> "devs"],
                                  [id |-> "", label |-> "ghost"]} >>

\* The resolve functions and the keys the callers pass them.
Entries == {"resolveUser", "resolveUserGroup", "getChannelId", "getChannelIdOrName"}

KindOf(e) ==
    CASE e = "resolveUser" -> "users"
      [] e = "resolveUserGroup" -> "user_groups"
      [] OTHER -> "channels"

KeysOf(e) ==
    CASE e = "resolveUser" -> {"alice", "bob"}
      [] e = "resolveUserGroup" -> {"devs", "bob"}
      [] e = "getChannelId" -> {"general", "C2", "nochan"}
      [] OTHER -> {"C2", "nochan"}

\* resolveUser, resolveUserGroup and channels.ts getChannelId skip the
\* coordinator when the table is known fresh; users.ts getChannelId does not.
Guarded(e) == e # "getChannelIdOrName"

\* The deployments checked: in one behaviour every caller uses one resolve
\* function (one kind), so that all callers contend for the same row.
Menus == {{"resolveUser"}, {"getChannelIdOrName"}}

\* now    the millisecond clock all callers read with Date.now()
\* ticks  how often the clock has advanced
\* meta   the sync_meta table: kind -> [started_at, completed_at]
\* tbl    the entity tables: kind -> set of [id, label, synced_at]
\* pr     per caller: its position in resolve/syncIfNeeded and its locals
\* menu   the resolve functions the callers of this deployment call
\* text   the "@name" candidates of the message convertMentions is given,
\*        in order of occurrence (empty when no message is converted)
\* out    the state of that conversion and the message it returned
\* req    the tool call the server is handling: its arguments, how far the
\*        handler and sendMessage have got, the posts made, the response
\* calls  resolve calls started so far
\* lastw  history: per kind, the last write to its sync_meta row
\*        ("seed", "claim", "done" or "reset")
VARIABLES now, ticks, meta, tbl, pr, menu, text, out, req, calls, lastw

vars == << now, ticks, meta, tbl, pr, menu, text, out, req, calls, lastw >>

\* A conversion's state and result: st is "none", "pending", "done" or
\* "failed"; msg is the converted message, one token per candidate.
NoOutput == [st |-> "none", msg |-> << >>]

\* No error: the err field of a call that has not failed.
NoError == [kind |-> "none", code |-> "none"]

\* No tool call is being handled.
NoRequest ==
    [pc |-> "idle", tool |-> "none", chan |-> "none", msg |-> "none",
     thread |-> "none", len |-> 0, posts |-> << >>, called |-> FALSE,
     err |-> NoError, resp |-> "none", code |-> "none", fallback |-> FALSE]

\* ------------------------------------------------------------ the store
\* sync_meta as getDb seeds it: one row per kind, both timestamps 0.
SeedMeta == [k \in Kinds |-> [started_at |-> 0, completed_at |-> 0]]

\* The entity tables as getDb creates them: empty.
EmptyTables == [k \in Kinds |-> {}]

\* Mutant of LookupByLabel: the TTL comparison is inclusive.
LookupByLabel_Inclusive(rows, key, t) ==
    LET hit == {r \in rows : r.label = key /\ r.synced_at >= t - CACHE_TTL_MS}
    IN IF hit = {} THEN NULL ELSE (CHOOSE r \in hit : TRUE).id

\* SELECT id FROM <table> WHERE <label> = ? AND synced_at > ? (first row or null)
LookupByLabel(rows, key, t) ==
    LET hit == {r \in rows : r.label = key /\ r.synced_at > t - CACHE_TTL_MS}
    IN IF hit = {} THEN NULL ELSE (CHOOSE r \in hit : TRUE).id

\* SELECT id FROM channels WHERE id = ? AND synced_at > ?
LookupById(rows, key, t) ==
    LET hit == {r \in rows : r.id = key /\ r.synced_at > t - CACHE_TTL_MS}
    IN IF hit = {} THEN NULL ELSE (CHOOSE r \in hit : TRUE).id

\* The lookupFn closure a resolve function hands to syncIfNeeded, run at time t.
LookupFn(e, rows, key, t) ==
    IF e = "getChannelIdOrName"
    THEN IF LookupByLabel(rows, key, t) # NULL
         THEN LookupByLabel(rows, key, t)
         ELSE LookupById(rows, key, t)
    ELSE LookupByLabel(rows, key, t)

\* isTableSynced: completed_at > Date.now() - CACHE_TTL_MS
isTableSynced(row, t) == row.completed_at > t - CACHE_TTL_MS

\* Mutant of OtherIsSyncing: the lock stops counting one millisecond early.
OtherIsSyncing_Early(row, t) ==
    /\ row.started_at > row.completed_at
    /\ t - row.started_at < SYNC_TIMEOUT_MS - 1

\* Step 2's test of the row read at line 46: another instance is syncing and
\* its claim is younger than the timeout.
OtherIsSyncing(row, t) ==
    /\ row.started_at > row.completed_at
    /\ t - row.started_at < SYNC_TIMEOUT_MS

\* Mutant of ClaimWhere: a row counts as idle only when completed_at is
\* strictly later than started_at.
ClaimWhere_Strict(row, claimTime) ==
    \/ row.completed_at > row.started_at
    \/ row.started_at + SYNC_TIMEOUT_MS < claimTime

\* The WHERE clause of the claim update (line 74).
ClaimWhere(row, claimTime) ==
    \/ row.completed_at >= row.started_at
    \/ row.started_at + SYNC_TIMEOUT_MS < claimTime

\* UPDATE sync_meta SET started_at = ? (line 73)
ClaimRow(row, claimTime) == [row EXCEPT !.started_at = claimTime]

\* Mutant of CompleteRow: completed_at is set one millisecond early.
CompleteRow_Early(row, t) == [row EXCEPT !.completed_at = t - 1]

\* UPDATE sync_meta SET completed_at = ? (line 100)
CompleteRow(row, t) == [row EXCEPT !.completed_at = t]

\* Mutant of ResetRow: the catch block resets both timestamps to 0.
ResetRow_ClearsBoth(row) == [started_at |-> 0, completed_at |-> 0]

\* Mutant of ResetRow: the catch block leaves the row as the claim wrote it.
ResetRow_KeepsLock(row) == row

\* UPDATE sync_meta SET started_at = completed_at (line 105)
ResetRow(row) == [row EXCEPT !.started_at = row.completed_at]

\* const deadline = meta.started_at + SYNC_TIMEOUT_MS (line 52)
WaitDeadline(observedStart) == observedStart + SYNC_TIMEOUT_MS

\* const deadline = claimTime + SYNC_TIMEOUT_MS (line 79)
LoserDeadline(claimTime) == claimTime + SYNC_TIMEOUT_MS

\* The step-2 poll's exit test (line 61).
WaitBreak(row, observedStart) == row.completed_at >= observedStart

\* The losing claimant's exit test (line 88).
LoserBreak(row, claimTime) == row.completed_at >= claimTime

\* Mutant of Accumulate: entries lacking an id or a label are kept.
Accumulate_KeepsAll(pages, n) == UNION {pages[i] : i \in 1..n}

\* The rows a refresh writes: the entries of the pages fetched that have both
\* an id and a label, all stamped with the refresh's single timestamp.
RECURSIVE Accumulate(_, _)
Accumulate(pages, n) ==
    IF n = 0 THEN {}
    ELSE Accumulate(pages, n - 1) \cup
         {e \in pages[n] : e.id # "" /\ e.label # ""}

\* Mutant of ReplaceRows: the rows of each page are stamped when it arrives.
ReplaceRows_PerPage(pages, stamp) ==
    UNION {{[id |-> e.id, label |-> e.label, synced_at |-> stamp + i] :
                e \in {x \in pages[i] : x.id # "" /\ x.label # ""}} :
           i \in 1..Len(pages)}

ReplaceRows(pages, stamp) ==
    {[id |-> e.id, label |-> e.label, synced_at |-> stamp] :
        e \in Accumulate(pages, Len(pages))}

\* ------------------------------------------------------------ the callers
\* A caller's locals.  pc is the statement it executes next.
\*   entry, key   the resolve function called and its argument
\*   obs          meta.started_at of line 46
\*   wakeAt       end of its sleep
\*   claimTime    of line 71               fnow      `now` of the refresh
\*   pg           pages fetched so far     ret       what the call returned
\* and, as history of the current call:
\*   inSync  it entered syncIfNeeded       nref  calls of apiFetchFn
\*   look    result of its last lookupFn   lost  its claim changed 0 rows
\*   waited  it entered the step-2 poll loop
\*   beat    started_at of the claim its own claim update lost to
\*   ended   how the refresh it polls on (obs, beat) ended, once it has
\*   retry   its claim took a row whose last write was a failure reset
\*   afterFail  the call started when the row's last write was a failure
\*              reset, and no other caller has claimed the row since
IdleProc ==
    [pc |-> "idle", entry |-> "none", key |-> "none", obs |-> 0,
     wakeAt |-> 0, claimTime |-> 0, fnow |-> 0, pg |-> 0,
     ret |-> "none", inSync |-> FALSE, nref |-> 0, look |-> "none",
     lost |-> FALSE, waited |-> FALSE, beat |-> 0, ended |-> "no",
     retry |-> FALSE, afterFail |-> FALSE]

SYNC_FAILED == "SYNC_FAILED"

Kind(p) == KindOf(pr[p].entry)

\* The call ends: it returns v (or throws, v = SYNC_FAILED); locals die.
Returned(q, v) ==
    [q EXCEPT !.pc = "done", !.ret = v, !.obs = 0, !.beat = 0, !.wakeAt = 0,
              !.claimTime = 0, !.fnow = 0, !.pg = 0, !.retry = FALSE,
              !.afterFail = FALSE]

\* lookupFn() inside syncIfNeeded: return on a hit, else go on with `miss`.
AfterLookup(q, found, miss) ==
    IF found # NULL
    THEN Returned([q EXCEPT !.look = found], found)
    ELSE [miss EXCEPT !.look = found]

\* Step 3 begins: const claimTime = Date.now()
ToClaim(q, t) == [q EXCEPT !.claimTime = t, !.obs = 0, !.pc = "c_cas"]

\* Mutant of WaitLoop: the loop has no deadline.
WaitLoop_NoDeadline(q, t) == [q EXCEPT !.wakeAt = t + POLL_INTERVAL_MS, !.pc = "w_sleep"]

\* The head of the step-2 poll loop at time t: sleep, or leave at the deadline.
WaitLoop(q, t) ==
    IF t < WaitDeadline(q.obs)
    THEN [q EXCEPT !.wakeAt = t + POLL_INTERVAL_MS, !.pc = "w_sleep"]
    ELSE [q EXCEPT !.pc = "w_after"]

\* The head of the losing claimant's poll loop at time t.
LoserLoop(q, t) ==
    IF t < LoserDeadline(q.claimTime)
    THEN [q EXCEPT !.wakeAt = t + POLL_INTERVAL_MS, !.pc = "l_sleep"]
    ELSE [q EXCEPT !.pc = "l_final"]

\* Where the step-2 poller goes after re-reading the row.
WaitNext(q, row, t) ==
    IF WaitBreak(row, q.obs) THEN [q EXCEPT !.pc = "w_after"] ELSE WaitLoop(q, t)

\* Where the losing claimant goes after re-reading the row.
LoserNext(q, row, t) ==
    IF LoserBreak(row, q.claimTime) THEN [q EXCEPT !.pc = "l_final"] ELSE LoserLoop(q, t)

\* Step 2's decision on the row read at time t.
Step2(q, row, t) ==
    IF OtherIsSyncing(row, t)
    THEN WaitLoop([q EXCEPT !.obs = row.started_at, !.waited = TRUE], t)
    ELSE ToClaim(q, t)

\* Mutant of AfterClaim: the caller refreshes whatever the claim update reported.
AfterClaim_IgnoresChanges(q, changes, t) ==
    [q EXCEPT !.lost = (changes = 0), !.nref = q.nref + 1, !.fnow = t,
              !.pg = 0, !.pc = "f_page"]

\* What the caller does once its claim update reported `changes`.
AfterClaim(q, changes, t) ==
    IF changes = 0
    THEN LoserLoop([q EXCEPT !.lost = TRUE], t)
    ELSE [q EXCEPT !.nref = q.nref + 1, !.fnow = t, !.pg = 0, !.pc = "f_page"]

\* The resolve function after its own lookups missed: the known-fresh skip.
AfterMiss(q, e, row, t) ==
    IF Guarded(e) /\ isTableSynced(row, t)
    THEN Returned(q, NULL)
    ELSE [q EXCEPT !.pc = "s_lookup", !.inSync = TRUE]

\* History: the callers polling on p's claim learn how p's refresh ended.
PollsOn(q, k, start) ==
    /\ q.entry # "none" /\ KindOf(q.entry) = k
    /\ \/ q.pc \in {"w_sleep", "w_read"} /\ q.obs = start
       \/ q.pc \in {"l_sleep", "l_read"} /\ q.beat = start

Ended(p, how) ==
    [q \in Procs |->
        IF q # p /\ PollsOn(pr[q], Kind(p), pr[p].claimTime) /\ pr[q].ended = "no"
        THEN [pr[q] EXCEPT !.ended = how] ELSE pr[q]]

\* History: p's claim won, so the other calls on the row met another claimant.
Claimed(p) ==
    [q \in Procs |->
        IF q # p /\ pr[q].entry # "none" /\ Kind(q) = Kind(p)
        THEN [pr[q] EXCEPT !.afterFail = FALSE] ELSE pr[q]]

Init ==
    /\ now = StartTime
    /\ ticks = 0
    /\ meta = SeedMeta
    /\ tbl = EmptyTables
    /\ pr = [p \in Procs |-> IdleProc]
    /\ menu \in Menus
    /\ text = << >>
    /\ out = NoOutput
    /\ req = NoRequest
    /\ calls = 0
    /\ lastw = [k \in Kinds |-> "seed"]

\* The clock advances.
Tick ==
    /\ ticks < MaxTicks
    /\ \E d \in Steps : now' = now + d
    /\ ticks' = ticks + 1
    /\ UNCHANGED << meta, tbl, pr, menu, text, out, req, calls, lastw >>

\* A caller calls a resolve function.
StartCall(p) ==
    /\ pr[p].pc \in {"idle", "done"}
    /\ calls < MaxCalls
    /\ \E e \in menu : \E key \in KeysOf(e) :
          pr' = [pr EXCEPT ![p] =
                    [IdleProc EXCEPT !.pc = "r_lookup", !.entry = e, !.key = key,
                                     !.afterFail = (lastw[KindOf(e)] = "reset")]]
    /\ calls' = calls + 1
    /\ UNCHANGED << now, ticks, meta, tbl, menu, text, out, req, lastw >>

\* The resolve function's own first lookup (by name).
ResolveLookup(p) ==
    /\ pr[p].pc = "r_lookup"
    /\ LET q == pr[p]
           found == LookupByLabel(tbl[Kind(p)], q.key, now)
       IN pr' = [pr EXCEPT ![p] =
                   IF found # NULL THEN Returned(q, found)
                   ELSE IF q.entry = "getChannelIdOrName" THEN [q EXCEPT !.pc = "r_byid"]
                   ELSE [q EXCEPT !.pc = "r_synced"]]
    /\ UNCHANGED << now, ticks, meta, tbl, menu, text, out, req, calls, lastw >>

\* users.ts getChannelId: the lookup by id, then straight to syncIfNeeded.
ResolveById(p) ==
    /\ pr[p].pc = "r_byid"
    /\ LET q == pr[p]
           found == LookupById(tbl[Kind(p)], q.key, now)
       IN pr' = [pr EXCEPT ![p] =
                   IF found # NULL THEN Returned(q, found)
                   ELSE AfterMiss(q, q.entry, meta[Kind(p)], now)]
    /\ UNCHANGED << now, ticks, meta, tbl, menu, text, out, req, calls, lastw >>

\* if (!isTableSynced(kind)) return syncIfNeeded(...); return null
ResolveSynced(p) ==
    /\ pr[p].pc = "r_synced"
    /\ pr' = [pr EXCEPT ![p] = AfterMiss(@, @.entry, meta[Kind(p)], now)]
    /\ UNCHANGED << now, ticks, meta, tbl, menu, text, out, req, calls, lastw >>

\* Mutant of SyncLookup: step 1 goes on to the sync_meta row even on a hit.
SyncLookup_NoShortCircuit(p) ==
    /\ pr[p].pc = "s_lookup"
    /\ pr' = [pr EXCEPT ![p] = [@ EXCEPT !.pc = "s_meta"]]
    /\ UNCHANGED << now, ticks, meta, tbl, menu, text, out, req, calls, lastw >>

\* Step 1: check cache.
SyncLookup(p) ==
    /\ pr[p].pc = "s_lookup"
    /\ LET q == pr[p]
       IN pr' = [pr EXCEPT ![p] =
                   AfterLookup(q, LookupFn(q.entry, tbl[Kind(p)], q.key, now),
                               [q EXCEPT !.pc = "s_meta"])]
    /\ UNCHANGED << now, ticks, meta, tbl, menu, text, out, req, calls, lastw >>

\* Step 2: read the row; wait if another instance is syncing, else claim.
SyncMeta(p) ==
    /\ pr[p].pc = "s_meta"
    /\ pr' = [pr EXCEPT ![p] = Step2(@, meta[Kind(p)], now)]
    /\ UNCHANGED << now, ticks, meta, tbl, menu, text, out, req, calls, lastw >>

\* Mutant of WaitWake: the poll ignores what its lookup found.
WaitWake_IgnoresHit(p) ==
    /\ pr[p].pc = "w_sleep"
    /\ now >= pr[p].wakeAt
    /\ pr' = [pr EXCEPT ![p] = [@ EXCEPT !.wakeAt = 0, !.pc = "w_read"]]
    /\ UNCHANGED << now, ticks, meta, tbl, menu, text, out, req, calls, lastw >>

\* The sleep ends; const result = lookupFn(); if (result !== null) return result
WaitWake(p) ==
    /\ pr[p].pc = "w_sleep"
    /\ now >= pr[p].wakeAt
    /\ LET q == [pr[p] EXCEPT !.wakeAt = 0]
       IN pr' = [pr EXCEPT ![p] =
                   AfterLookup(q, LookupFn(q.entry, tbl[Kind(p)], q.key, now),
                               [q EXCEPT !.pc = "w_read"])]
    /\ UNCHANGED << now, ticks, meta, tbl, menu, text, out, req, calls, lastw >>

\* Re-read completed_at; break, or go round the loop.
WaitRead(p) ==
    /\ pr[p].pc = "w_read"
    /\ pr' = [pr EXCEPT ![p] = WaitNext(@, meta[Kind(p)], now)]
    /\ UNCHANGED << now, ticks, meta, tbl, menu, text, out, req, calls, lastw >>

\* const afterWait = lookupFn(); if (afterWait !== null) return afterWait
WaitAfter(p) ==
    /\ pr[p].pc = "w_after"
    /\ LET q == pr[p]
       IN pr' = [pr EXCEPT ![p] =
                   AfterLookup(q, LookupFn(q.entry, tbl[Kind(p)], q.key, now),
                               ToClaim(q, now))]
    /\ UNCHANGED << now, ticks, meta, tbl, menu, text, out, req, calls, lastw >>

\* Mutant of ClaimCas: the claim update has no table_name = ? condition.
ClaimCas_AllKinds(p) ==
    /\ pr[p].pc = "c_cas"
    /\ LET q == pr[p]
           k == Kind(p)
       IN IF ClaimWhere(meta[k], q.claimTime)
          THEN /\ meta' = [j \in Kinds |-> ClaimRow(meta[j], q.claimTime)]
               /\ lastw' = [lastw EXCEPT ![k] = "claim"]
               /\ pr' = [Claimed(p) EXCEPT ![p] =
                           AfterClaim([q EXCEPT !.retry = (lastw[k] = "reset")], 1, now)]
          ELSE /\ UNCHANGED << meta, lastw >>
               /\ pr' = [pr EXCEPT ![p] =
                           AfterClaim([q EXCEPT !.beat = meta[k].started_at], 0, now)]
    /\ UNCHANGED << now, ticks, tbl, menu, text, out, req, calls >>

\* Step 3: the claim update; changes = 1 iff the WHERE clause held.
ClaimCas(p) ==
    /\ pr[p].pc = "c_cas"
    /\ LET q == pr[p]
           k == Kind(p)
       IN IF ClaimWhere(meta[k], q.claimTime)
          THEN /\ meta' = [meta EXCEPT ![k] = ClaimRow(@, q.claimTime)]
               /\ lastw' = [lastw EXCEPT ![k] = "claim"]
               /\ pr' = [Claimed(p) EXCEPT ![p] =
                           AfterClaim([q EXCEPT !.retry = (lastw[k] = "reset")], 1, now)]
          ELSE /\ UNCHANGED << meta, lastw >>
               /\ pr' = [pr EXCEPT ![p] =
                           AfterClaim([q EXCEPT !.beat = meta[k].started_at], 0, now)]
    /\ UNCHANGED << now, ticks, tbl, menu, text, out, req, calls >>

\* The losing claimant's sleep ends; lookupFn()
LoserWake(p) ==
    /\ pr[p].pc = "l_sleep"
    /\ now >= pr[p].wakeAt
    /\ LET q == [pr[p] EXCEPT !.wakeAt = 0]
       IN pr' = [pr EXCEPT ![p] =
                   AfterLookup(q, LookupFn(q.entry, tbl[Kind(p)], q.key, now),
                               [q EXCEPT !.pc = "l_read"])]
    /\ UNCHANGED << now, ticks, meta, tbl, menu, text, out, req, calls, lastw >>

\* The losing claimant re-reads completed_at.
LoserRead(p) ==
    /\ pr[p].pc = "l_read"
    /\ pr' = [pr EXCEPT ![p] = LoserNext(@, meta[Kind(p)], now)]
    /\ UNCHANGED << now, ticks, meta, tbl, menu, text, out, req, calls, lastw >>

\* Mutant of LoserFinal: a losing claimant whose winner failed throws too.
LoserFinal_Throws(p) ==
    /\ pr[p].pc = "l_final"
    /\ LET q == pr[p]
           found == LookupFn(q.entry, tbl[Kind(p)], q.key, now)
       IN pr' = [pr EXCEPT ![p] =
                   IF q.ended = "failed"
                   THEN Returned(q, SYNC_FAILED)
                   ELSE Returned([q EXCEPT !.look = found], found)]
    /\ UNCHANGED << now, ticks, meta, tbl, menu, text, out, req, calls, lastw >>

\* return lookupFn()   (line 92)
LoserFinal(p) ==
    /\ pr[p].pc = "l_final"
    /\ LET q == pr[p]
           found == LookupFn(q.entry, tbl[Kind(p)], q.key, now)
       IN pr' = [pr EXCEPT ![p] = Returned([q EXCEPT !.look = found], found)]
    /\ UNCHANGED << now, ticks, meta, tbl, menu, text, out, req, calls, lastw >>

\* Mutant of FetchPage: every page is written to the table as it arrives.
FetchPage_Commits(p) ==
    /\ pr[p].pc = "f_page"
    /\ LET q == pr[p]
       IN /\ pr' = [pr EXCEPT ![p] =
                      [q EXCEPT !.pg = q.pg + 1,
                                !.pc = IF q.pg + 1 = Len(Remote(Kind(p)))
                                       THEN "f_tx" ELSE "f_page"]]
          /\ tbl' = [tbl EXCEPT ![Kind(p)] =
                       @ \cup ReplaceRows(<< Remote(Kind(p))[q.pg + 1] >>, q.fnow)]
    /\ UNCHANGED << now, ticks, meta, menu, text, out, req, calls, lastw >>

\* One page request answers: next page, or the transaction when no cursor is left.
FetchPage(p) ==
    /\ pr[p].pc = "f_page"
    /\ LET q == pr[p]
       IN pr' = [pr EXCEPT ![p] =
                   [q EXCEPT !.pg = q.pg + 1,
                             !.pc = IF q.pg + 1 = Len(Remote(Kind(p)))
                                    THEN "f_tx" ELSE "f_page"]]
    /\ UNCHANGED << now, ticks, meta, tbl, menu, text, out, req, calls, lastw >>

\* One page request throws: the refresh fails before any write.  (pg keeps
\* the number of pages fetched before the failure until the call ends.)
FetchFail(p) ==
    /\ pr[p].pc = "f_page"
    /\ pr' = [pr EXCEPT ![p] = [@ EXCEPT !.fnow = 0, !.pc = "m_fail"]]
    /\ UNCHANGED << now, ticks, meta, tbl, menu, text, out, req, calls, lastw >>

\* Mutant of FetchTx: the DELETE and the INSERTs commit separately.
FetchTx_TwoSteps(p) ==
    /\ pr[p].pc = "f_tx"
    /\ IF tbl[Kind(p)] # {}
       THEN /\ tbl' = [tbl EXCEPT ![Kind(p)] = {}]
            /\ UNCHANGED pr
       ELSE /\ tbl' = [tbl EXCEPT ![Kind(p)] = ReplaceRows(Remote(Kind(p)), pr[p].fnow)]
            /\ pr' = [pr EXCEPT ![p] = [@ EXCEPT !.fnow = 0, !.pg = 0, !.pc = "m_done"]]
    /\ UNCHANGED << now, ticks, meta, menu, text, out, req, calls, lastw >>

\* The replace transaction: DELETE, then INSERT every accumulated entry.
FetchTx(p) ==
    /\ pr[p].pc = "f_tx"
    /\ tbl' = [tbl EXCEPT ![Kind(p)] = ReplaceRows(Remote(Kind(p)), pr[p].fnow)]
    /\ pr' = [pr EXCEPT ![p] = [@ EXCEPT !.fnow = 0, !.pg = 0, !.pc = "m_done"]]
    /\ UNCHANGED << now, ticks, meta, menu, text, out, req, calls, lastw >>

\* Step 6: mark completed.
MarkDone(p) ==
    /\ pr[p].pc = "m_done"
    /\ meta' = [meta EXCEPT ![Kind(p)] = CompleteRow(@, now)]
    /\ pr' = [Ended(p, "done") EXCEPT ![p] = [@ EXCEPT !.claimTime = 0, !.pc = "s_final"]]
    /\ lastw' = [lastw EXCEPT ![Kind(p)] = "done"]
    /\ UNCHANGED << now, ticks, tbl, menu, text, out, req, calls >>

\* Mutant of MarkFail: after the reset the call claims again instead of throwing.
MarkFail_Retries(p) ==
    /\ pr[p].pc = "m_fail"
    /\ meta' = [meta EXCEPT ![Kind(p)] = ResetRow(@)]
    /\ pr' = [Ended(p, "failed") EXCEPT ![p] = ToClaim(@, now)]
    /\ lastw' = [lastw EXCEPT ![Kind(p)] = "reset"]
    /\ UNCHANGED << now, ticks, tbl, menu, text, out, req, calls >>

\* catch: reset the lock, throw SYNC_FAILED.
MarkFail(p) ==
    /\ pr[p].pc = "m_fail"
    /\ meta' = [meta EXCEPT ![Kind(p)] = ResetRow(@)]
    /\ pr' = [Ended(p, "failed") EXCEPT ![p] = Returned(@, SYNC_FAILED)]
    /\ lastw' = [lastw EXCEPT ![Kind(p)] = "reset"]
    /\ UNCHANGED << now, ticks, tbl, menu, text, out, req, calls >>

\* Step 7: final lookup.
SyncFinal(p) ==
    /\ pr[p].pc = "s_final"
    /\ LET q == pr[p]
           found == LookupFn(q.entry, tbl[Kind(p)], q.key, now)
       IN pr' = [pr EXCEPT ![p] = Returned([q EXCEPT !.look = found], found)]
    /\ UNCHANGED << now, ticks, meta, tbl, menu, text, out, req, calls, lastw >>

Next ==
    \/ Tick
    \/ \E p \in Procs :
          \/ StartCall(p)
          \/ ResolveLookup(p)
          \/ ResolveById(p)
          \/ ResolveSynced(p)
          \/ SyncLookup(p)
          \/ SyncMeta(p)
          \/ WaitWake(p)
          \/ WaitRead(p)
          \/ WaitAfter(p)
          \/ ClaimCas(p)
          \/ LoserWake(p)
          \/ LoserRead(p)
          \/ LoserFinal(p)
          \/ FetchPage(p)
          \/ FetchFail(p)
          \/ FetchTx(p)
          \/ MarkDone(p)
          \/ MarkFail(p)
          \/ SyncFinal(p)

Spec == Init /\ [][Next]_vars

\* ------------------------------------------------- locks at the timeout
\* The clock advances by one timeout, one millisecond less or one more: a
\* lock taken before the advance is seen just inside, exactly at, or just
\* past SYNC_TIMEOUT_MS after it.
BoundarySteps == {SYNC_TIMEOUT_MS - 1, SYNC_TIMEOUT_MS, SYNC_TIMEOUT_MS + 1}

TickBoundary ==
    /\ ticks < MaxTicks
    /\ \E d \in BoundarySteps : now' = now + d
    /\ ticks' = ticks + 1
    /\ UNCHANGED << meta, tbl, pr, menu, text, out, req, calls, lastw >>

\* The process of a claim holder dies between its claim update and the
\* update that would end its refresh: it writes nothing more and makes no
\* further call.  The callers
\* polling on its claim have a holder that crashed; lastw records the crash
\* when the row still carries the dead holder's lock.
Crash(p) ==
    /\ pr[p].pc \in {"f_page", "f_tx", "m_done", "m_fail"}
    /\ pr' = [Ended(p, "crashed") EXCEPT ![p] = [IdleProc EXCEPT !.pc = "crashed"]]
    /\ lastw' = [lastw EXCEPT ![Kind(p)] =
                   IF /\ meta[Kind(p)].started_at = pr[p].claimTime
                      /\ meta[Kind(p)].started_at > meta[Kind(p)].completed_at
                   THEN "crash" ELSE @]
    /\ UNCHANGED << now, ticks, meta, tbl, menu, text, out, req, calls >>

NextRecovery ==
    \/ TickBoundary
    \/ \E p \in Procs :
          \/ Crash(p)
          \/ StartCall(p)
          \/ ResolveLookup(p)
          \/ ResolveSynced(p)
          \/ SyncLookup(p)
          \/ SyncMeta(p)
          \/ WaitWake(p)
          \/ WaitRead(p)
          \/ WaitAfter(p)
          \/ ClaimCas(p)
          \/ LoserWake(p)
          \/ LoserRead(p)
          \/ LoserFinal(p)
          \/ FetchPage(p)
          \/ FetchFail(p)
          \/ FetchTx(p)
          \/ MarkDone(p)
          \/ MarkFail(p)
          \/ SyncFinal(p)

\* The deployment checked here calls resolveUser only.
InitUsers == Init /\ menu = {"resolveUser"}

SpecRecovery == InitUsers /\ [][NextRecovery]_vars

\* ------------------------------------------------- rows at the TTL
\* The clock advances by one poll interval, or by what is left of one TTL
\* after a poll interval: a refresh that took one poll interval is seen one
\* TTL after it began.
FreshnessSteps == {POLL_INTERVAL_MS, CACHE_TTL_MS - POLL_INTERVAL_MS}

\* One advance more than in the other specifications: one during a refresh
\* and one after it.
TickFreshness ==
    /\ ticks < MaxTicks + 1
    /\ \E d \in FreshnessSteps : now' = now + d
    /\ ticks' = ticks + 1
    /\ UNCHANGED << meta, tbl, pr, menu, text, out, req, calls, lastw >>

NextFreshness ==
    \/ TickFreshness
    \/ \E p \in Procs :
          \/ StartCall(p)
          \/ ResolveLookup(p)
          \/ ResolveSynced(p)
          \/ SyncLookup(p)
          \/ SyncMeta(p)
          \/ WaitWake(p)
          \/ WaitRead(p)
          \/ WaitAfter(p)
          \/ ClaimCas(p)
          \/ LoserWake(p)
          \/ LoserRead(p)
          \/ LoserFinal(p)
          \/ FetchPage(p)
          \/ FetchFail(p)
          \/ FetchTx(p)
          \/ MarkDone(p)
          \/ MarkFail(p)
          \/ SyncFinal(p)

SpecFreshness == InitUsers /\ [][NextFreshness]_vars

\* ------------------------------------------------- calls that must end
\* The stride of the clock while some call sleeps: a third of the timeout,
\* so that a poll loop goes round a few times before its deadline.
SleepStride == SYNC_TIMEOUT_MS \div 3

\* The clock advances while a call sleeps in a poll loop.
TickAsleep ==
    /\ \E p \in Procs : pr[p].pc \in {"w_sleep", "l_sleep"} /\ now < pr[p].wakeAt
    /\ now' = now + SleepStride
    /\ ticks' = ticks + 1
    /\ UNCHANGED << meta, tbl, pr, menu, text, out, req, calls, lastw >>

\* Whatever a call that has started does next: its continuation is run by
\* the event loop once it is ready, and the refresh function comes back.
CallStep(p) ==
    \/ ResolveLookup(p) \/ ResolveSynced(p)
    \/ SyncLookup(p) \/ SyncMeta(p)
    \/ WaitWake(p) \/ WaitRead(p) \/ WaitAfter(p)
    \/ ClaimCas(p)
    \/ LoserWake(p) \/ LoserRead(p) \/ LoserFinal(p)
    \/ FetchPage(p) \/ FetchFail(p) \/ FetchTx(p)
    \/ MarkDone(p) \/ MarkFail(p) \/ SyncFinal(p)

NextTermination ==
    \/ TickAsleep
    \/ \E p \in Procs : StartCall(p) \/ CallStep(p)

SpecTermination ==
    /\ InitUsers /\ [][NextTermination]_vars
    /\ WF_vars(TickAsleep)
    /\ \A p \in Procs : WF_vars(CallStep(p))

\* ------------------------------------------------- opening the store
\* A sync_meta row that does not exist yet (timestamps are never negative).
NoRow == [started_at |-> 0 - 1, completed_at |-> 0 - 1]

\* Mutant of SeedIgnore: INSERT OR REPLACE, every row is reset to (0, 0).
SeedIgnore_Replace(m) == [k \in Kinds |-> [started_at |-> 0, completed_at |-> 0]]

\* getDb's seeding transaction: INSERT OR IGNORE INTO sync_meta ... VALUES (?, 0, 0)
\* for every kind; a row that exists is left as it is.
SeedIgnore(m) ==
    [k \in Kinds |-> IF m[k] = NoRow
                     THEN [started_at |-> 0, completed_at |-> 0] ELSE m[k]]

\* A process that has not opened the store (the module-level db is unset).
ClosedProc == [IdleProc EXCEPT !.pc = "closed"]

\* getDb, first call in a process: create what is missing, seed sync_meta.
GetDb(p) ==
    /\ pr[p].pc = "closed"
    /\ meta' = SeedIgnore(meta)
    /\ lastw' = [k \in Kinds |-> IF meta[k] = NoRow THEN "seed" ELSE lastw[k]]
    /\ pr' = [pr EXCEPT ![p] = IdleProc]
    /\ UNCHANGED << now, ticks, tbl, menu, text, out, req, calls >>

\* closeDb at shutdown; the next process starts with the store unopened.
CloseDb(p) ==
    /\ pr[p].pc \in {"idle", "done"}
    /\ pr' = [pr EXCEPT ![p] = ClosedProc]
    /\ UNCHANGED << now, ticks, meta, tbl, menu, text, out, req, calls, lastw >>

\* The instant at which the stores below are opened.
OpenTime == StartTime + CACHE_TTL_MS

\* The synced_at stamps of the rows found in the store: exactly at the TTL
\* bound, and one millisecond inside it.
Stamps == {OpenTime - CACHE_TTL_MS, OpenTime - CACHE_TTL_MS + 1}

\* The stores a process can find: no file yet; the result of an earlier
\* refresh of every kind stamped s that took d; or such a store whose stale
\* rows another process has just begun to refresh.
StoreStates ==
    {[meta |-> [k \in Kinds |-> NoRow], tbl |-> EmptyTables,
      lastw |-> [k \in Kinds |-> "none"]]}
    \cup {[meta |-> [k \in Kinds |-> [started_at |-> s, completed_at |-> s + d]],
           tbl |-> [k \in Kinds |-> ReplaceRows(Remote(k), s)],
           lastw |-> [k \in Kinds |-> "done"]]
            : s \in Stamps, d \in {0, POLL_INTERVAL_MS}}
    \cup {[meta |-> [k \in Kinds |-> [started_at |-> OpenTime,
                                      completed_at |-> OpenTime - CACHE_TTL_MS]],
           tbl |-> [k \in Kinds |-> ReplaceRows(Remote(k), OpenTime - CACHE_TTL_MS)],
           lastw |-> [k \in Kinds |-> "claim"]]}

InitStore ==
    /\ now = OpenTime
    /\ ticks = 0
    /\ \E s \in StoreStates : meta = s.meta /\ tbl = s.tbl /\ lastw = s.lastw
    /\ pr = [p \in Procs |-> ClosedProc]
    /\ menu \in {{e} : e \in Entries}
    /\ text = << >>
    /\ out = NoOutput
    /\ req = NoRequest
    /\ calls = 0

\* One process at a time opens the store, resolves and shuts down; the clock
\* stands still, so a call that has to poll stays asleep.
NextStore ==
    \E p \in {"p1"} :
        \/ GetDb(p) \/ CloseDb(p)
        \/ StartCall(p) \/ ResolveLookup(p) \/ ResolveById(p) \/ ResolveSynced(p)
        \/ SyncLookup(p) \/ SyncMeta(p) \/ ClaimCas(p)
        \/ FetchPage(p) \/ FetchFail(p) \/ FetchTx(p)
        \/ MarkDone(p) \/ MarkFail(p) \/ SyncFinal(p)

SpecStore == InitStore /\ [][NextStore]_vars

\* ------------------------------------------------- mentions in a message
\* The pieces of a converted message.
At(name) == [kind |-> "at", arg |-> name]
Subteam(id) == [kind |-> "subteam", arg |-> id]
UserRef(id) == [kind |-> "user", arg |-> id]
Broadcast(name) == [kind |-> "broadcast", arg |-> name]
NoToken == [kind |-> "none", arg |-> ""]

Broadcasts == {"here", "channel", "everyone"}

\* The messages converted, as the sequence of their "@name" candidates.
Texts ==
    {<< "devs", "alice" >>, << "bob", "bob" >>,
     << "alice", "bob", "alice" >>, << "here", "alice" >>}

\* Mutant of DistinctNames: every occurrence is a name of its own.
DistinctNames_All(msg) == msg

\* names: the Set the regex matches are added to, in insertion order.
DistinctNames(msg) ==
    SelectSeq([i \in 1..Len(msg) |-> IF \E j \in 1..(i - 1) : msg[j] = msg[i]
                                     THEN NULL ELSE msg[i]],
              LAMBDA n : n # NULL)

\* The tasks [...names].map(async name => ...) creates, in order.
TaskOrder == << "p1", "p2" >>

TaskIx(p) == CHOOSE i \in 1..Len(TaskOrder) : TaskOrder[i] = p

HasTask(p, msg) == TaskIx(p) <= Len(DistinctNames(msg))

TaskName(p, msg) == DistinctNames(msg)[TaskIx(p)]

\* Where a task is suspended: not yet run by map, at an await, or settled.
AwaitPcs == {"idle", "t_group", "done", "w_sleep", "l_sleep", "f_page", "m_done", "m_fail"}

\* One process, one thread: a task runs only while no other task is between
\* two awaits.
Ready(p) == \A q \in Procs \ {p} : pr[q].pc \in AwaitPcs

\* The task has returned its [name, replacement] entry, or thrown.
TaskDone(q) ==
    /\ q.pc = "done"
    /\ q.entry = "resolveUser" \/ q.ret # NULL

\* The replacement a settled task returns (null when neither lookup found).
TokenOf(q) ==
    IF q.ret = NULL THEN NoToken
    ELSE IF q.entry = "resolveUserGroup" THEN Subteam(q.ret) ELSE UserRef(q.ret)

\* message.replace(regex, (full, name) => replacements.get(name) ?? full)
Replace(msg, tasks) ==
    [i \in 1..Len(msg) |->
        LET hit == {p \in Procs : /\ tasks[p].entry # "none" /\ tasks[p].key = msg[i]
                                  /\ TokenOf(tasks[p]) # NoToken}
        IN IF hit = {} THEN At(msg[i]) ELSE TokenOf(tasks[CHOOSE p \in hit : TRUE])]

\* convertMentions is called: the candidates are collected, one task per
\* distinct name is created.
ConvertStart ==
    /\ out.st # "pending"
    /\ \A p \in Procs : pr[p].pc = "idle" \/ TaskDone(pr[p])
    /\ calls < MaxCalls
    /\ \E msg \in Texts :
          /\ text' = msg
          /\ pr' = [p \in Procs |->
                      IF HasTask(p, msg)
                      THEN [IdleProc EXCEPT !.pc = "t_group", !.key = TaskName(p, msg)]
                      ELSE IdleProc]
    /\ out' = [st |-> "pending", msg |-> << >>]
    /\ UNCHANGED << now, ticks, meta, tbl, menu, req, calls, lastw >>

\* A task begins: await resolveUserGroup(name); map runs the tasks in order.
MentionGroup(p) ==
    /\ pr[p].pc = "t_group"
    /\ \A q \in Procs : TaskIx(q) < TaskIx(p) => pr[q].pc # "t_group"
    /\ pr' = [pr EXCEPT ![p] = [@ EXCEPT !.pc = "r_lookup", !.entry = "resolveUserGroup"]]
    /\ calls' = calls + 1
    /\ UNCHANGED << now, ticks, meta, tbl, menu, text, out, req, lastw >>

\* Mutant of MentionUser: the user lookup is made whatever the group lookup found.
MentionUser_Always(p) ==
    /\ pr[p].pc = "done" /\ pr[p].entry = "resolveUserGroup"
    /\ pr[p].ret # SYNC_FAILED
    /\ pr' = [pr EXCEPT ![p] =
                [IdleProc EXCEPT !.pc = "r_lookup", !.entry = "resolveUser",
                                 !.key = pr[p].key]]
    /\ calls' = calls + 1
    /\ UNCHANGED << now, ticks, meta, tbl, menu, text, out, req, lastw >>

\* if (groupId) return ...; const userId = await resolveUser(name)
MentionUser(p) ==
    /\ pr[p].pc = "done" /\ pr[p].entry = "resolveUserGroup"
    /\ pr[p].ret = NULL
    /\ pr' = [pr EXCEPT ![p] =
                [IdleProc EXCEPT !.pc = "r_lookup", !.entry = "resolveUser",
                                 !.key = pr[p].key]]
    /\ calls' = calls + 1
    /\ UNCHANGED << now, ticks, meta, tbl, menu, text, out, req, lastw >>

\* Promise.all resolves: the replacements are applied to the message.
ConvertEnd ==
    /\ out.st = "pending"
    /\ \A p \in Procs : pr[p].pc = "idle" \/ (TaskDone(pr[p]) /\ pr[p].ret # SYNC_FAILED)
    /\ out' = [st |-> "done", msg |-> Replace(text, pr)]
    /\ UNCHANGED << now, ticks, meta, tbl, pr, menu, text, req, calls, lastw >>

\* Promise.all rejects as soon as one task throws.
ConvertFail ==
    /\ out.st = "pending"
    /\ \E p \in Procs : pr[p].pc = "done" /\ pr[p].ret = SYNC_FAILED
    /\ out' = [st |-> "failed", msg |-> << >>]
    /\ UNCHANGED << now, ticks, meta, tbl, pr, menu, text, req, calls, lastw >>

InitMentions ==
    /\ now = StartTime
    /\ ticks = 0
    /\ meta = SeedMeta
    /\ tbl = EmptyTables
    /\ pr = [p \in Procs |-> IdleProc]
    /\ menu = {"resolveUserGroup", "resolveUser"}
    /\ text = << >>
    /\ out = NoOutput
    /\ req = NoRequest
    /\ calls = 0
    /\ lastw = [k \in Kinds |-> "seed"]

\* One process converting messages: the tasks of a conversion interleave at
\* their awaits only.  No task can lose the claim update here: nothing runs
\* between a task's read of the row and its claim.
NextMentions ==
    \/ Tick
    \/ ConvertStart \/ ConvertEnd \/ ConvertFail
    \/ \E p \in Procs :
          \/ Ready(p) /\ MentionGroup(p)
          \/ Ready(p) /\ MentionUser(p)
          \/ Ready(p) /\ ResolveLookup(p)
          \/ Ready(p) /\ ResolveSynced(p)
          \/ Ready(p) /\ SyncLookup(p)
          \/ Ready(p) /\ SyncMeta(p)
          \/ Ready(p) /\ WaitWake(p)
          \/ Ready(p) /\ WaitRead(p)
          \/ Ready(p) /\ WaitAfter(p)
          \/ Ready(p) /\ ClaimCas(p)
          \/ Ready(p) /\ FetchPage(p)
          \/ Ready(p) /\ FetchFail(p)
          \/ Ready(p) /\ FetchTx(p)
          \/ Ready(p) /\ MarkDone(p)
          \/ Ready(p) /\ MarkFail(p)
          \/ Ready(p) /\ SyncFinal(p)

SpecMentions == InitMentions /\ [][NextMentions]_vars

\* ------------------------------------------------- the send_message tool
BLOCK_KIT_TEXT_LIMIT == 3000

\* Argument values of a tool call: strings ("s:" and the text), a number,
\* or no such argument.
ChanArgs == {"s:general", "s:", "n:123", "absent"}
MsgArgs == {"s:hello", "s:", "n:123", "absent"}
ThreadArgs == {"absent", "s:1718033467.085279", "s:12345", "n:12345"}
Tools == {"send_message", "unknown_tool"}

\* typeof v === 'string'
IsString(v) == v \in {"s:general", "s:hello", "s:", "s:1718033467.085279", "s:12345"}

\* A string that is not empty (the only strings that are truthy).
Truthy(v) == v # "absent" /\ v # "s:"

\* THREAD_TS_RE.test(...)
MatchesThreadTs(v) == v = "s:1718033467.085279"

\* The length of the message convertMentions returns.
ConvertedLens == {BLOCK_KIT_TEXT_LIMIT, BLOCK_KIT_TEXT_LIMIT + 1}

\* The messages of the errors chat.postMessage rejects with.
PostErrors == {"invalid_blocks", "channel_not_found"}

\* An Error that is not a SlackMcpError, and a SlackMcpError with its code.
PlainError(m) == [kind |-> "error", code |-> m]
SlackMcpError(c) == [kind |-> "slack", code |-> c]

mapSlackError(e) ==
    SlackMcpError(IF e.code = "channel_not_found" THEN "CHANNEL_NOT_FOUND"
                  ELSE "SEND_FAILED")

\* sendMessage (or the handler before it) throws e: on to the catch block.
Throws(r, e) == [r EXCEPT !.pc = "h_catch", !.err = e]

\* A CallTool request arrives.
CallTool ==
    /\ req.pc \in {"idle", "responded"}
    /\ calls < MaxCalls
    /\ \E t \in Tools, c \in ChanArgs, m \in MsgArgs, th \in ThreadArgs :
          req' = [NoRequest EXCEPT !.pc = "h_switch", !.tool = t, !.chan = c,
                                   !.msg = m, !.thread = th]
    /\ calls' = calls + 1
    /\ UNCHANGED << now, ticks, meta, tbl, pr, menu, text, out, lastw >>

\* switch (name): validate the arguments and call sendMessage, or throw.
HandlerSwitch ==
    /\ req.pc = "h_switch"
    /\ req' = IF req.tool # "send_message"
              THEN Throws(req, PlainError("Unknown tool"))
              ELSE IF ~Truthy(req.chan) \/ ~IsString(req.chan)
              THEN Throws(req, SlackMcpError("SEND_FAILED"))
              ELSE IF ~Truthy(req.msg) \/ ~IsString(req.msg)
              THEN Throws(req, SlackMcpError("SEND_FAILED"))
              ELSE [req EXCEPT !.pc = "s_start", !.called = TRUE,
                       !.thread = IF IsString(req.thread) THEN req.thread ELSE "absent"]
    /\ UNCHANGED << now, ticks, meta, tbl, pr, menu, text, out, calls, lastw >>

\* sendMessage: getSlackClient() and the thread_ts check.
SendStart ==
    /\ req.pc = "s_start"
    /\ \E configured \in BOOLEAN :
          req' = IF ~configured THEN Throws(req, SlackMcpError("CONFIG_MISSING"))
                 ELSE IF Truthy(req.thread) /\ ~MatchesThreadTs(req.thread)
                 THEN Throws(req, SlackMcpError("SEND_FAILED"))
                 ELSE [req EXCEPT !.pc = "s_convert"]
    /\ UNCHANGED << now, ticks, meta, tbl, pr, menu, text, out, calls, lastw >>

\* await convertMentions(...): the converted message, or what it throws.
SendConvert ==
    /\ req.pc = "s_convert"
    /\ \/ \E n \in ConvertedLens : req' = [req EXCEPT !.pc = "s_channel", !.len = n]
       \/ \E e \in {SlackMcpError("SYNC_FAILED"), PlainError("database is locked")} :
             req' = Throws(req, e)
    /\ UNCHANGED << now, ticks, meta, tbl, pr, menu, text, out, calls, lastw >>

\* await getChannelId(...): an id, null (CHANNEL_NOT_FOUND), or what it
\* throws; then the choice between Block Kit and plain text.
SendChannel ==
    /\ req.pc = "s_channel"
    /\ \/ \E id \in {"C1", NULL} :
             req' = IF id = NULL THEN Throws(req, SlackMcpError("CHANNEL_NOT_FOUND"))
                    ELSE IF req.len > BLOCK_KIT_TEXT_LIMIT
                    THEN [req EXCEPT !.pc = "s_plain"]
                    ELSE [req EXCEPT !.pc = "s_blocks"]
       \/ \E e \in {SlackMcpError("SYNC_FAILED"), PlainError("database is locked")} :
             req' = Throws(req, e)
    /\ UNCHANGED << now, ticks, meta, tbl, pr, menu, text, out, calls, lastw >>

\* The post with blocks: success, or on to the fallback.
SendBlocks ==
    /\ req.pc = "s_blocks"
    /\ \/ req' = [req EXCEPT !.pc = "h_return",
                    !.posts = Append(@, [blocks |-> TRUE, err |-> "none"])]
       \/ \E m \in PostErrors :
             req' = [req EXCEPT !.pc = "s_plain", !.err = PlainError(m),
                        !.posts = Append(@, [blocks |-> TRUE, err |-> m])]
    /\ UNCHANGED << now, ticks, meta, tbl, pr, menu, text, out, calls, lastw >>

\* Mutant of SendPlain: when both posts fail the second error is raised.
SendPlain_RaisesSecond ==
    /\ req.pc = "s_plain"
    /\ \/ req' = [req EXCEPT !.pc = "h_return", !.fallback = TRUE, !.err = NoError,
                    !.posts = Append(@, [blocks |-> FALSE, err |-> "none"])]
       \/ \E m \in PostErrors :
             req' = [Throws(req, mapSlackError(PlainError(m)))
                        EXCEPT !.posts = Append(@, [blocks |-> FALSE, err |-> m])]
    /\ UNCHANGED << now, ticks, meta, tbl, pr, menu, text, out, calls, lastw >>

\* sendPlainText: the post without blocks.  Its own error is mapped and
\* thrown; as the fallback, the catch around it throws the mapping of the
\* Block Kit error instead.
SendPlain ==
    /\ req.pc = "s_plain"
    /\ \/ req' = [req EXCEPT !.pc = "h_return", !.fallback = TRUE, !.err = NoError,
                    !.posts = Append(@, [blocks |-> FALSE, err |-> "none"])]
       \/ \E m \in PostErrors :
             req' = [Throws(req, IF req.err # NoError THEN mapSlackError(req.err)
                                 ELSE mapSlackError(PlainError(m)))
                        EXCEPT !.posts = Append(@, [blocks |-> FALSE, err |-> m])]
    /\ UNCHANGED << now, ticks, meta, tbl, pr, menu, text, out, calls, lastw >>

\* The handler returns sendMessage's result as the tool result.
HandlerReturn ==
    /\ req.pc = "h_return"
    /\ req' = [req EXCEPT !.pc = "responded", !.resp = "result", !.code = "success"]
    /\ UNCHANGED << now, ticks, meta, tbl, pr, menu, text, out, calls, lastw >>

\* Mutant of HandlerCatch: every error is rethrown.
HandlerCatch_Rethrows ==
    /\ req.pc = "h_catch"
    /\ req' = [req EXCEPT !.pc = "responded", !.resp = "thrown", !.code = req.err.code]
    /\ UNCHANGED << now, ticks, meta, tbl, pr, menu, text, out, calls, lastw >>

\* catch (error): a SlackMcpError becomes an isError result, the rest is thrown.
HandlerCatch ==
    /\ req.pc = "h_catch"
    /\ req' = [req EXCEPT !.pc = "responded",
                 !.resp = IF req.err.kind = "slack" THEN "isError" ELSE "thrown",
                 !.code = req.err.code]
    /\ UNCHANGED << now, ticks, meta, tbl, pr, menu, text, out, calls, lastw >>

NextSend ==
    \/ CallTool \/ HandlerSwitch
    \/ SendStart \/ SendConvert \/ SendChannel \/ SendBlocks \/ SendPlain
    \/ HandlerReturn \/ HandlerCatch

SpecSend == InitUsers /\ [][NextSend]_vars

\* ------------------------------------------------------------- properties
\* The callers between a successful claim and the end of their refresh.
Refreshing(k) == {p \in Procs : pr[p].pc \in {"f_page", "f_tx"} /\ Kind(p) = k}

\* The step of caller p that leaves statement `at`.
Leaves(p, at) == pr[p].pc = at /\ pr'[p].pc # at

\* C1: for each kind, at most one caller is between a successful claim and
\* the end of the refresh it then runs.  Stated for the callers whose claim
\* is younger than SYNC_TIMEOUT_MS, which the stale-lock reclaim cannot
\* excuse: the claim as worded (any refresh duration) implies this.
C1_MutualExclusion ==
    \A k \in Kinds :
       Cardinality({p \in Refreshing(k) :
                      now - pr[p].claimTime < SYNC_TIMEOUT_MS}) <= 1

\* C2: of the callers attempting the claim update on one row, exactly one gets
\* changes = 1: once a caller has won, the claim update of every other caller
\* whose attempt is pending on that row at the same clock value changes 0 rows.
C2_ExactlyOneClaim ==
    [][\A p \in Procs :
          Leaves(p, "c_cas") /\ pr'[p].pc = "f_page" =>
             \A q \in Procs \ {p} :
                (/\ pr[q].pc = "c_cas" /\ Kind(q) = Kind(p)
                 /\ pr[q].claimTime = pr[p].claimTime) =>
                   ~ClaimWhere(meta'[Kind(p)], pr[q].claimTime)]_vars

\* C3: when two callers resolve the same key of one kind on a cold cache at
\* nearly the same time (both calls begin and end within one poll interval
\* of the cold start), and no refresh fails, exactly one refresh is performed
\* in total and both calls return the same result.
C3_OneRefreshSameResult ==
    \A p, q \in Procs :
       (/\ p # q /\ calls = 2
        /\ now <= StartTime + POLL_INTERVAL_MS
        /\ pr[p].pc = "done" /\ pr[q].pc = "done"
        /\ pr[p].inSync /\ pr[q].inSync
        /\ pr[p].key = pr[q].key
        /\ pr[p].ret # SYNC_FAILED /\ pr[q].ret # SYNC_FAILED)
       => /\ pr[p].nref + pr[q].nref = 1
          /\ pr[p].ret = pr[q].ret

\* C4: a caller that polled in step 2 on a refresh that then completed
\* successfully never runs a refresh of its own.
C4_NoSecondRefresh ==
    \A p \in Procs : pr[p].waited /\ pr[p].ended = "done" => pr[p].nref = 0

\* C5: a call whose claim update changed zero rows never invokes refresh; it
\* only polls and returns the result of a final lookup.
C5_LoserNeverRefreshes ==
    \A p \in Procs :
       pr[p].lost =>
          /\ pr[p].nref = 0
          /\ pr[p].pc \in {"l_sleep", "l_read", "l_final", "done"}
          /\ pr[p].pc = "done" => pr[p].ret = pr[p].look

\* C5 witness: a losing claimant has returned absent without refreshing.
C5_Witness ==
    \E p \in Procs : pr[p].lost /\ pr[p].pc = "done" /\ pr[p].ret = NULL

\* C6: a caller that lost the claim to a winner whose refresh failed returns
\* a lookup hit or has claimed the row itself and run its own refresh.
C6_LoserRetriesAfterFailure ==
    \A p \in Procs :
       pr[p].pc = "done" /\ pr[p].lost /\ pr[p].ended = "failed" =>
          pr[p].ret # NULL \/ pr[p].nref >= 1

\* C7: one call of syncIfNeeded invokes refresh at most once, and the value
\* it returns is the result of a lookup made by that call.
C7_AtMostOneRefresh ==
    \A p \in Procs :
       /\ pr[p].nref <= 1
       /\ (pr[p].pc = "done" /\ pr[p].inSync /\ pr[p].ret # SYNC_FAILED) =>
             pr[p].ret = pr[p].look /\ pr[p].look # "none"

\* C7 witness: a call that refreshed once has returned its final lookup.
C7_Witness ==
    \E p \in Procs :
       /\ pr[p].pc = "done" /\ pr[p].nref = 1
       /\ pr[p].ret = pr[p].look /\ pr[p].ret \notin {NULL, SYNC_FAILED}

\* C8: the failure reset of a claim holder leaves completed_at = started_at.
C8_FailureLeavesIdle ==
    [][\A p \in Procs :
          Leaves(p, "m_fail") =>
             meta'[Kind(p)].completed_at = meta'[Kind(p)].started_at]_vars

\* C8 witness: a refresh has thrown on a row that an earlier refresh had
\* completed, and the row is as the reset left it.
C8_Witness ==
    \E p \in Procs :
       /\ pr[p].pc = "done" /\ pr[p].ret = SYNC_FAILED
       /\ lastw[Kind(p)] = "reset"
       /\ meta[Kind(p)].completed_at > 0
       /\ meta[Kind(p)].completed_at = meta[Kind(p)].started_at

C10_WaiterSeesFailure ==
    [][\A p \in Procs :
          Leaves(p, "w_read") /\ pr[p].ended = "failed" =>
             pr'[p].pc = "w_after"]_vars

\* C11: SYNC_FAILED is raised only by a call that held the claim and whose own
\* refresh threw: a call that ends with SYNC_FAILED has invoked refresh and
\* did not lose its claim, and a call that only polled returns its lookup.
C11_OnlyHolderThrows ==
    \A p \in Procs :
       /\ (pr[p].pc = "done" /\ pr[p].ret = SYNC_FAILED) =>
             pr[p].nref = 1 /\ ~pr[p].lost
       /\ (pr[p].pc = "done" /\ pr[p].inSync /\ pr[p].nref = 0) =>
             pr[p].ret = pr[p].look /\ pr[p].ret # SYNC_FAILED

\* C11 witness: a call that only polled on a refresh that failed has returned
\* absent, not an error.
C11_Witness ==
    \E p \in Procs :
       /\ pr[p].pc = "done" /\ pr[p].nref = 0 /\ pr[p].ended = "failed"
       /\ pr[p].lost \/ pr[p].waited
       /\ pr[p].ret = NULL

\* C12: with completed_at = 0, a caller that arrives when the row's
\* started_at is now - SYNC_TIMEOUT_MS - 1 goes on to claim, its claim update
\* succeeds and it refreshes; a caller that arrives when started_at is
\* now - SYNC_TIMEOUT_MS + 1 polls instead.
C12_StaleLockReclaim ==
    [][\A p \in Procs :
          LET row == meta[Kind(p)]
          IN (row.completed_at = 0 /\ row.started_at > 0) =>
                /\ (Leaves(p, "s_meta") /\ row.started_at = now - SYNC_TIMEOUT_MS - 1) =>
                      /\ pr'[p].pc = "c_cas"
                      /\ ClaimWhere(row, pr'[p].claimTime)
                /\ (/\ Leaves(p, "c_cas") /\ ~pr[p].waited
                    /\ row.started_at = pr[p].claimTime - SYNC_TIMEOUT_MS - 1) =>
                      /\ pr'[p].pc = "f_page"
                      /\ pr'[p].nref = pr[p].nref + 1
                /\ (Leaves(p, "s_meta") /\ row.started_at = now - SYNC_TIMEOUT_MS + 1) =>
                      /\ pr'[p].pc = "w_sleep"
                      /\ pr'[p].waited /\ pr'[p].nref = 0]_vars

\* C12 witness: a caller that arrived SYNC_TIMEOUT_MS + 1 after the claim of a
\* holder that is still refreshing (completed_at = 0) has taken the row and
\* is refreshing too.
C12_Witness ==
    \E p \in Procs :
       /\ pr[p].pc = "f_page" /\ pr[p].nref = 1 /\ ~pr[p].waited /\ ~pr[p].lost
       /\ pr[p].claimTime = StartTime + SYNC_TIMEOUT_MS + 1
       /\ meta[Kind(p)] = [started_at |-> pr[p].claimTime, completed_at |-> 0]
       /\ \E q \in Procs \ {p} :
             /\ pr[q].pc \in {"f_page", "f_tx"} /\ Kind(q) = Kind(p)
             /\ pr[q].claimTime = StartTime

\* C13: a caller that arrives at a locked row exactly SYNC_TIMEOUT_MS after
\* its started_at wins the claim and refreshes.
C13_BoundaryReclaimable ==
    [][\A p \in Procs :
          LET row == meta[Kind(p)]
          IN (/\ Leaves(p, "c_cas") /\ ~pr[p].waited
              /\ row.started_at > row.completed_at
              /\ pr[p].claimTime = now
              /\ now - row.started_at = SYNC_TIMEOUT_MS) =>
                pr'[p].pc = "f_page"]_vars

\* C14: when the holder of a lock has crashed and the row still carries its
\* lock, a caller that polled on that lock until its deadline, or that
\* arrives later than started_at + SYNC_TIMEOUT_MS, wins its claim.
C14_CrashRecovery ==
    [][\A p \in Procs :
          LET row == meta[Kind(p)]
          IN (/\ Leaves(p, "c_cas")
              /\ lastw[Kind(p)] = "crash"
              /\ row.started_at > row.completed_at
              /\ \/ pr[p].waited /\ pr[p].ended = "crashed"
                 \/ pr[p].claimTime > row.started_at + SYNC_TIMEOUT_MS) =>
                pr'[p].pc = "f_page"]_vars

\* The id the remote directory holds for a key (NULL when it holds none):
\* what the lookup of the key yields on a table just refreshed.
RemoteId(e, key) == LookupFn(e, ReplaceRows(Remote(KindOf(e)), 1), key, 1)

\* C15: when no refresh fails (each caller has made one call and none ended
\* with SYNC_FAILED), every resolve call for a key that the remote directory
\* holds returns the key's id, never absent.
C15_EventualResolution ==
    (/\ calls = 2
     /\ \A q \in Procs : pr[q].pc = "done" /\ pr[q].ret # SYNC_FAILED) =>
       \A p \in Procs :
          RemoteId(pr[p].entry, pr[p].key) # NULL =>
             pr[p].ret = RemoteId(pr[p].entry, pr[p].key)

\* C16: what a lookup can see of a table is never the state between a
\* refresh's delete and its inserts: a table is empty only while no refresh
\* of its kind has ever completed, and otherwise holds all rows of one
\* refresh, every row with that refresh's timestamp.
C16_AtomicReplace ==
    \A k \in Kinds :
       IF tbl[k] = {}
       THEN meta[k].completed_at = 0
       ELSE \E r \in tbl[k] : tbl[k] = ReplaceRows(Remote(k), r.synced_at)

\* C16 witness: a refresh has just replaced the rows of an earlier, completed
\* refresh while another caller of the kind is about to run a lookup.
C16_Witness ==
    \E p \in Procs :
       /\ pr[p].pc = "m_done"
       /\ meta[Kind(p)].completed_at > 0
       /\ \A r \in tbl[Kind(p)] : r.synced_at > meta[Kind(p)].completed_at
       /\ \E q \in Procs \ {p} :
             /\ pr[q].pc \in {"r_lookup", "s_lookup", "w_sleep", "w_after"}
             /\ Kind(q) = Kind(p)

\* C17: a refresh writes nothing to the entity table while it requests pages,
\* when a page request fails, or when it handles the failure, whatever number
\* of pages it had fetched: rows and synced_at stay as they were.
C17_NoPartialCommit ==
    [][\A p \in Procs :
          (pr[p].pc \in {"f_page", "m_fail"} /\ pr'[p] # pr[p]) => tbl' = tbl]_vars

\* C17 witness: a refresh failed after its first page, and the table still
\* holds the rows of the earlier refresh, with that refresh's timestamp.
C17_Witness ==
    \E p \in Procs :
       /\ pr[p].pc = "m_fail" /\ pr[p].pg = 1
       /\ meta[Kind(p)].completed_at > 0
       /\ tbl[Kind(p)] # {}
       /\ \A r \in tbl[Kind(p)] : r.synced_at < pr[p].claimTime

\* C18: the replace transaction of a refresh of channels or users runs after
\* every page was fetched, and leaves in the table exactly the (id, label)
\* pairs of all pages that have both an id and a label, every row carrying
\* this refresh's timestamp, so no row from before the refresh remains.
C18_WholesaleReplace ==
    [][\A p \in Procs :
          (/\ Leaves(p, "f_tx") /\ pr'[p].pc = "m_done"
           /\ Kind(p) \in {"channels", "users"}) =>
             LET pages == Remote(Kind(p))
                 all == UNION {pages[i] : i \in 1..Len(pages)}
             IN /\ pr[p].pg = Len(pages)
                /\ {<< r.id, r.label >> : r \in tbl'[Kind(p)]} =
                      {<< e.id, e.label >> : e \in {x \in all : x.id # "" /\ x.label # ""}}
                /\ \A r \in tbl'[Kind(p)] : r.synced_at = pr[p].fnow]_vars

\* C18 witness: a second refresh of users has committed; the table holds
\* alice and devs (the entry without a name is skipped) with the new timestamp.
C18_Witness ==
    \E p \in Procs :
       /\ pr[p].pc = "m_done" /\ Kind(p) = "users"
       /\ meta["users"].completed_at > 0
       /\ {<< r.id, r.label >> : r \in tbl["users"]} =
             {<< "U222", "alice" >>, << "U444", "devs" >>}
       /\ \A r \in tbl["users"] : r.synced_at > meta["users"].completed_at

\* C19: when a resolve function's local lookups have missed and the kind's
\* sync_meta row says a sync completed within the TTL, the call returns absent
\* without entering syncIfNeeded.
C19_KnownFreshSkip ==
    [][\A p \in Procs :
          (/\ \/ Leaves(p, "r_synced")
              \/ /\ Leaves(p, "r_byid")
                 /\ LookupById(tbl[Kind(p)], pr[p].key, now) = NULL
           /\ isTableSynced(meta[Kind(p)], now)) =>
             /\ pr'[p].pc = "done"
             /\ pr'[p].ret = NULL
             /\ ~pr'[p].inSync]_vars

\* C20: while a table counts as synced (completed_at > now - TTL) none of its
\* rows is stale (synced_at <= now - TTL), so a lookup that misses on a synced
\* table misses a key that the last refresh did not commit.  Stated for rows
\* written by a refresh that completed within one poll interval of its start.
C20_SyncedFlagSound ==
    \A k \in Kinds :
       isTableSynced(meta[k], now) =>
          \A r \in tbl[k] :
             meta[k].completed_at - r.synced_at <= POLL_INTERVAL_MS =>
                r.synced_at > now - CACHE_TTL_MS

\* C21: TTL boundary.  In the lookups of all three kinds a record with
\* synced_at = now - TTL is a miss, and a record with synced_at = now - TTL + 1
\* is a hit whose id the call returns.
C21_TtlBoundary ==
    [][\A p \in Procs :
        /\ Leaves(p, "r_lookup") =>
              \A r \in tbl[Kind(p)] : r.label = pr[p].key =>
                  /\ r.synced_at = now - CACHE_TTL_MS => pr'[p].pc # "done"
                  /\ r.synced_at = now - CACHE_TTL_MS + 1 =>
                        pr'[p].pc = "done" /\ pr'[p].ret = r.id
        /\ Leaves(p, "r_byid") =>
              \A r \in tbl[Kind(p)] : r.id = pr[p].key =>
                  /\ r.synced_at = now - CACHE_TTL_MS => pr'[p].pc # "done"
                  /\ r.synced_at = now - CACHE_TTL_MS + 1 =>
                        pr'[p].pc = "done" /\ pr'[p].ret = r.id]_vars

\* A call was answered from a record one millisecond inside the TTL.
C21_Witness ==
    \E p \in Procs :
        /\ pr[p].pc = "done" /\ ~pr[p].inSync
        /\ \E r \in tbl[Kind(p)] :
              r.id = pr[p].ret /\ r.synced_at = now - CACHE_TTL_MS + 1

\* C22: channel resolution by id.  A getChannelId call that returned has
\* returned the id of the fresh record whose name equals its input, else the
\* id of the fresh record whose id equals its input, and where such a record
\* was there without a refresh of its own it did not enter syncIfNeeded.
C22_ChannelById ==
    \A p \in Procs :
        (/\ pr[p].pc = "done"
         /\ pr[p].entry \in {"getChannelId", "getChannelIdOrName"}
         /\ pr[p].ret # SYNC_FAILED) =>
            LET byName == LookupByLabel(tbl["channels"], pr[p].key, now)
                byId == LookupById(tbl["channels"], pr[p].key, now)
            IN /\ byName # NULL => pr[p].ret = byName
               /\ (byName = NULL /\ byId # NULL) => pr[p].ret = byId
               /\ (pr[p].nref = 0 /\ (byName # NULL \/ byId # NULL)) => ~pr[p].inSync

\* C24: opening the store leaves started_at and completed_at of every row
\* that exists unchanged, and creates each missing row with both timestamps 0;
\* the entity tables are not touched.
C24_OpenKeepsProgress ==
    [][\A p \in Procs : Leaves(p, "closed") =>
        /\ \A k \in Kinds :
              meta'[k] = IF meta[k] = NoRow
                         THEN [started_at |-> 0, completed_at |-> 0] ELSE meta[k]
        /\ tbl' = tbl]_vars

\* A process has opened the store while another process holds a claim, and
\* the claim is still there.
C24_Witness ==
    /\ pr["p1"].pc = "idle"
    /\ \E k \in Kinds : meta[k].started_at > meta[k].completed_at

\* C23: hot path.  When the first lookup of syncIfNeeded finds the key, the
\* call returns that value in the same step: it does not go on to read the
\* sync_meta row, writes nothing to the store and has invoked no refresh.
C23_HotPath ==
    [][\A p \in Procs :
        LET found == LookupFn(pr[p].entry, tbl[Kind(p)], pr[p].key, now)
        IN (Leaves(p, "s_lookup") /\ found # NULL) =>
              /\ pr'[p].pc = "done" /\ pr'[p].ret = found
              /\ pr'[p].nref = 0 /\ ~pr'[p].waited /\ ~pr'[p].lost
              /\ meta' = meta /\ tbl' = tbl /\ lastw' = lastw]_vars

\* A call was answered by step 1 while another caller still held the claim
\* on the row.
C23_Witness ==
    \E p \in Procs :
        /\ pr[p].pc = "done" /\ pr[p].inSync /\ pr[p].nref = 0
        /\ ~pr[p].waited /\ ~pr[p].lost
        /\ pr[p].ret \notin {NULL, SYNC_FAILED} /\ pr[p].look = pr[p].ret
        /\ meta[Kind(p)].started_at > meta[Kind(p)].completed_at
        /\ \E q \in Procs \ {p} : pr[q].pc = "m_done"

\* C26: termination.  Every call that has entered syncIfNeeded eventually
\* returns a value or throws, given that the clock advances while calls
\* sleep and that the refresh function comes back; and neither poll loop
\* runs past its deadline: a sleep is only begun before the deadline, and a
\* poller that re-reads the row at or after it leaves the loop.
C26_Termination ==
    /\ \A p \in Procs : (pr[p].inSync /\ pr[p].pc # "done") ~> (pr[p].pc = "done")
    /\ [][\A p \in Procs :
            /\ pr'[p].pc = "w_sleep" =>
                  pr'[p].wakeAt - POLL_INTERVAL_MS < WaitDeadline(pr'[p].obs)
            /\ pr'[p].pc = "l_sleep" =>
                  pr'[p].wakeAt - POLL_INTERVAL_MS < LoserDeadline(pr'[p].claimTime)
            /\ (Leaves(p, "w_read") /\ now >= WaitDeadline(pr[p].obs)) =>
                  pr'[p].pc = "w_after"
            /\ (Leaves(p, "l_read") /\ now >= LoserDeadline(pr[p].claimTime)) =>
                  pr'[p].pc = "l_final"]_vars

\* A step-2 poll loop has ended at its deadline, the claim it waited for
\* still not completed.
C26_Witness ==
    \E p \in Procs :
        /\ pr[p].pc = "w_after" /\ now >= WaitDeadline(pr[p].obs)
        /\ meta[Kind(p)].completed_at < pr[p].obs

\* C25: kinds are independent.  A step that changes the sync_meta row or the
\* table of one kind is a claim, table replace, completion or failure reset
\* of a caller for that kind and changes nothing of the other kinds; and a
\* caller goes to sleep in step 2 only on a claim held on its own kind.
C25_KindsIndependent ==
    [][\A k \in Kinds :
        /\ (meta'[k] # meta[k] \/ tbl'[k] # tbl[k]) =>
              /\ \E p \in Procs :
                    /\ pr[p].pc \in {"c_cas", "f_tx", "m_done", "m_fail"}
                    /\ pr'[p] # pr[p] /\ Kind(p) = k
              /\ \A j \in Kinds \ {k} : meta'[j] = meta[j] /\ tbl'[j] = tbl[j]
        /\ \A p \in Procs :
              (Leaves(p, "s_meta") /\ Kind(p) = k /\ pr'[p].pc = "w_sleep") =>
                  OtherIsSyncing(meta[k], now)]_vars

\* A caller refreshes users, having claimed the row without waiting, while
\* another caller holds the claim on user_groups.
C25_Witness ==
    \E p \in Procs, q \in Procs :
        /\ pr[p].pc = "f_page" /\ Kind(p) = "users"
        /\ ~pr[p].waited /\ ~pr[p].lost
        /\ pr[q].pc = "f_page" /\ Kind(q) = "user_groups"
        /\ meta["user_groups"].started_at > meta["user_groups"].completed_at

\* C27: within one process no two syncIfNeeded calls for the same kind are in
\* flight at the same time.
C27_SerializedPerKind ==
    \A p \in Procs, q \in Procs :
        (/\ p # q
         /\ pr[p].inSync /\ pr[p].pc # "done"
         /\ pr[q].inSync /\ pr[q].pc # "done") => Kind(p) # Kind(q)

\* C28: group priority.  A task calls resolveUserGroup first; it calls
\* resolveUser only after the group lookup of the same name returned null;
\* in the converted message a name whose group lookup found an id is
\* <!subteam^ID>, and a name whose user lookup found an id is <@ID>.
C28_GroupPriority ==
    [][/\ \A p \in Procs :
            /\ (pr'[p].entry = "resolveUserGroup" /\ pr[p].entry # "resolveUserGroup") =>
                  pr[p].pc = "t_group" /\ pr'[p].key = pr[p].key
            /\ (pr'[p].entry = "resolveUser" /\ pr[p].entry # "resolveUser") =>
                  /\ pr[p].entry = "resolveUserGroup" /\ pr[p].pc = "done"
                  /\ pr[p].ret = NULL /\ pr'[p].key = pr[p].key
       /\ (out.st = "pending" /\ out'.st = "done") =>
            \A p \in Procs : pr[p].entry # "none" =>
                \A i \in 1..Len(text) : text[i] = pr[p].key =>
                    /\ (pr[p].entry = "resolveUserGroup") =>
                          out'.msg[i] = Subteam(pr[p].ret)
                    /\ (pr[p].entry = "resolveUser" /\ pr[p].ret # NULL) =>
                          out'.msg[i] = UserRef(pr[p].ret)]_vars

\* "@devs @alice" was converted: devs, a group handle and a user name, became
\* the group token, alice the user token.
C28_Witness ==
    /\ out.st = "done" /\ text = << "devs", "alice" >>
    /\ out.msg = << Subteam("S1"), UserRef("U222") >>
    /\ \E r \in tbl["users"] : r.label = "devs"

\* C29: broadcast tokens.  No resolveUserGroup or resolveUser call is made
\* for here, channel or everyone, and in the converted message they are
\* <!here>, <!channel> and <!everyone>.
C29_BroadcastTokens ==
    /\ \A p \in Procs : pr[p].entry # "none" => pr[p].key \notin Broadcasts
    /\ out.st = "done" =>
          \A i \in 1..Len(text) : text[i] \in Broadcasts =>
              out.msg[i] = Broadcast(text[i])

\* C30: unresolved and repeated mentions.  At most one task, hence one group
\* lookup and at most one user lookup, serves a name; in the converted
\* message a name that resolved to neither a group nor a user is unchanged,
\* and all occurrences of a name carry the same value.
C30_UnresolvedAndRepeated ==
    /\ \A p \in Procs, q \in Procs :
          (p # q /\ pr[p].pc # "idle" /\ pr[q].pc # "idle") => pr[p].key # pr[q].key
    /\ out.st = "done" =>
          /\ Len(out.msg) = Len(text)
          /\ \A i \in 1..Len(text) :
                /\ \A j \in 1..Len(text) : text[i] = text[j] => out.msg[i] = out.msg[j]
                /\ \A p \in Procs :
                      (pr[p].key = text[i] /\ pr[p].entry = "resolveUser"
                       /\ pr[p].ret = NULL) => out.msg[i] = At(text[i])

\* "@alice @bob @alice" was converted: both occurrences of alice were
\* replaced, bob was left as it was.
C30_Witness ==
    /\ out.st = "done" /\ text = << "alice", "bob", "alice" >>
    /\ out.msg = << UserRef("U222"), At("bob"), UserRef("U222") >>

\* C31 as stated: the first post of every sendMessage call carries blocks; a
\* failed first post is followed by exactly one post without blocks, whose
\* success is reported as the plain text fallback; when that fails too the
\* error raised is the mapping of the first error; there is no third post.
C31_SendFallback ==
    LET posts == req.posts
    IN /\ Len(posts) <= 2
       /\ Len(posts) >= 1 => posts[1].blocks
       /\ Len(posts) = 2 => posts[1].err # "none" /\ ~posts[2].blocks
       /\ (Len(posts) = 1 /\ posts[1].err # "none") => req.pc = "s_plain"
       /\ (Len(posts) = 2 /\ posts[2].err = "none") => req.fallback
       /\ (Len(posts) = 2 /\ posts[2].err # "none") =>
             req.err = mapSlackError(PlainError(posts[1].err))

\* C31 amended: the above for a converted message of at most
\* BLOCK_KIT_TEXT_LIMIT characters; a longer message is posted once, without
\* blocks, its success is reported as the plain text fallback and its
\* failure raises the mapping of that post's own error.
C31_SendFallbackWithinLimit ==
    LET posts == req.posts
    IN /\ Len(posts) <= 2
       /\ req.len <= BLOCK_KIT_TEXT_LIMIT =>
             /\ Len(posts) >= 1 => posts[1].blocks
             /\ Len(posts) = 2 => posts[1].err # "none" /\ ~posts[2].blocks
             /\ (Len(posts) = 1 /\ posts[1].err # "none") => req.pc = "s_plain"
             /\ (Len(posts) = 2 /\ posts[2].err = "none") => req.fallback
             /\ (Len(posts) = 2 /\ posts[2].err # "none") =>
                   req.err = mapSlackError(PlainError(posts[1].err))
       /\ req.len > BLOCK_KIT_TEXT_LIMIT =>
             /\ Len(posts) <= 1
             /\ Len(posts) = 1 =>
                   /\ ~posts[1].blocks
                   /\ posts[1].err = "none" => req.fallback
                   /\ posts[1].err # "none" =>
                         req.err = mapSlackError(PlainError(posts[1].err))

\* Both posts of a call failed, with errors that map to different codes, and
\* the call was answered with the code of the first.
C31_Witness ==
    /\ req.pc = "responded" /\ req.len <= BLOCK_KIT_TEXT_LIMIT
    /\ req.posts = << [blocks |-> TRUE, err |-> "invalid_blocks"],
                      [blocks |-> FALSE, err |-> "channel_not_found"] >>
    /\ req.resp = "isError" /\ req.code = "SEND_FAILED"

\* C32: tool call error handling.  A call that ended with a SlackMcpError is
\* answered with an isError result carrying its code, never by a throw; a
\* missing or non-string channel_name or message ends so without sendMessage
\* being called; any other error, and an unknown tool name, is thrown.
C32_ToolErrors ==
    req.pc = "responded" =>
        /\ req.err.kind = "slack" => req.resp = "isError" /\ req.code = req.err.code
        /\ req.err.kind = "error" => req.resp = "thrown"
        /\ req.err.kind = "none" => req.resp = "result"
        /\ req.tool # "send_message" => req.resp = "thrown" /\ ~req.called
        /\ (/\ req.tool = "send_message"
            /\ \/ req.chan \in {"absent", "n:123"}
               \/ req.msg \in {"absent", "n:123"}) =>
              /\ ~req.called /\ req.posts = << >>
              /\ req.resp = "isError" /\ req.code = "SEND_FAILED"

\* A call with a non-string channel_name was answered with an isError
\* result, sendMessage not called.
C32_Witness ==
    /\ req.pc = "responded" /\ req.tool = "send_message" /\ req.chan = "n:123"
    /\ req.resp = "isError" /\ req.code = "SEND_FAILED" /\ ~req.called

\* C33: a polling caller whose poll finds the key returns it in that step,
\* whatever the sync_meta row shows, without writing to the store and
\* without having claimed or refreshed.
C33_PollerReturnsOnHit ==
    [][\A p \in Procs :
        LET found == LookupFn(pr[p].entry, tbl[Kind(p)], pr[p].key, now)
        IN ((Leaves(p, "w_sleep") \/ Leaves(p, "l_sleep")) /\ found # NULL) =>
              /\ pr'[p].pc = "done" /\ pr'[p].ret = found
              /\ pr'[p].nref = 0
              /\ meta' = meta /\ tbl' = tbl /\ lastw' = lastw]_vars

\* A step-2 poller has returned the key while the refresher it waited for
\* had committed its rows but not yet written completed_at.
C33_Witness ==
    \E p \in Procs :
        /\ pr[p].pc = "done" /\ pr[p].waited /\ pr[p].nref = 0 /\ ~pr[p].lost
        /\ pr[p].ret \notin {NULL, SYNC_FAILED} /\ pr[p].look = pr[p].ret
        /\ meta[Kind(p)].started_at > meta[Kind(p)].completed_at
        /\ \E q \in Procs \ {p} : pr[q].pc = "m_done"

\* C34: a losing claimant polls against the deadline of the claim that beat
\* it: it goes (back) to sleep only before that claim's started_at +
\* SYNC_TIMEOUT_MS, and once the winner's refresh has finished, successfully
\* or not, the next time it re-reads the row it stops polling.
C34_LoserDeadline ==
    [][\A p \in Procs :
        /\ (pr'[p].pc = "l_sleep" /\ pr[p].pc # "l_sleep") =>
              now < pr'[p].beat + SYNC_TIMEOUT_MS
        /\ (Leaves(p, "l_read") /\ pr[p].ended # "no") =>
              pr'[p].pc = "l_final"]_vars

C36_OneStampPerTable ==
    \A k \in Kinds : \A r1 \in tbl[k], r2 \in tbl[k] : r1.synced_at = r2.synced_at

\* A refresh whose pages arrived over time has committed several rows, all
\* stamped with the time it began, while another caller of the kind is
\* inside syncIfNeeded.
C36_Witness ==
    \E p \in Procs :
        /\ pr[p].pc = "m_done"
        /\ Cardinality(tbl[Kind(p)]) >= 2
        /\ \A r \in tbl[Kind(p)] : r.synced_at >= pr[p].claimTime /\ r.synced_at < now
        /\ \E q \in Procs \ {p} :
              pr[q].inSync /\ pr[q].pc # "done" /\ Kind(q) = Kind(p)

\* C37: no step makes completed_at of a kind decrease, and the failure reset
\* of a refresh leaves completed_at, and with it isTableSynced, as it was.
C37_CompletedNeverDecreases ==
    [][/\ \A k \in Kinds : meta'[k].completed_at >= meta[k].completed_at
       /\ \A p \in Procs : (Leaves(p, "m_fail") /\ pr'[p].pc = "done") =>
             /\ meta'[Kind(p)].completed_at = meta[Kind(p)].completed_at
             /\ meta'[Kind(p)].started_at = meta[Kind(p)].completed_at
             /\ isTableSynced(meta'[Kind(p)], now') = isTableSynced(meta[Kind(p)], now)]_vars

\* A refresh of a table that an earlier refresh had completed has failed; the
\* row still carries the earlier completed_at, and a later call is under way.
C37_Witness ==
    \E p \in Procs, q \in Procs :
        /\ pr[p].pc = "done" /\ pr[p].ret = SYNC_FAILED
        /\ lastw[Kind(p)] = "reset"
        /\ meta[Kind(p)].completed_at > 0
        /\ isTableSynced(meta[Kind(p)], now)
        /\ q # p /\ pr[q].pc = "r_lookup"

\* C38: while the caller that made the latest successful claim of a kind is
\* still refreshing, the completion write or the failure reset of an earlier
\* claim holder of that kind never leaves the row Idle
\* (completed_at >= started_at).
C38_LockOwnership ==
    [][\A p \in Procs, q \in Procs :
          ( /\ p # q
            /\ Kind(q) = Kind(p)
            /\ p \in Refreshing(Kind(p))
            /\ meta[Kind(p)].started_at = pr[p].claimTime
            /\ pr[q].claimTime < pr[p].claimTime
            /\ (Leaves(q, "m_done") \/ Leaves(q, "m_fail"))
            /\ pr'[q].pc = "done" )
          => meta'[Kind(p)].started_at > meta'[Kind(p)].completed_at]_vars

====
